---- MODULE Spec2Model ----
(***************************************************************************)
(* A model of bis_fetcher.fetcher.bis.BisFetcher: the listing-page link    *)
(* parser (_parse_page_links), the article parser (_parse_article_text,    *)
(* _extract_text), the page walk that calls the link parser with page      *)
(* indices 0, 1, 2, ... and a batch of article extractions.                *)
(*                                                                         *)
(* A fetched page is modelled by what BeautifulSoup's find / find_all      *)
(* return on it: whether the container is found, the list of item nodes,   *)
(* and for each item whether its title node, its first anchor and the      *)
(* anchor's href exist.  A Python exception is modelled as an outcome       *)
(* (raised |-> TRUE) that the enclosing try/except turns into a return.     *)
(***************************************************************************)
EXTENDS Integers, Sequences, FiniteSets, TLC

VARIABLES
    pagePc, pageResp, pageResult,            \* one call of _parse_page_links
    docPc, docResp, docResult,               \* one call of _parse_article_text
    lastPage, page_index, all_links,         \* the page walk
    walkPc, walkHistory,
    batchSize, batchPc, batchHistory,        \* a batch of article extractions
    batchResults

vars == << pagePc, pageResp, pageResult, docPc, docResp, docResult,
           lastPage, page_index, all_links, walkPc, walkHistory,
           batchSize, batchPc, batchHistory, batchResults >>

pageVars  == << pagePc, pageResp, pageResult >>
docVars   == << docPc, docResp, docResult >>
walkVars  == << lastPage, page_index, all_links, walkPc, walkHistory >>
batchVars == << batchSize, batchPc, batchHistory, batchResults >>

----------------------------------------------------------------------------
(* Bounds of the explored inputs.                                          *)

MaxItems == 3

MaxWalkItems == 2

MaxPages == 2

MaxParagraphs == 3

MaxTags == 2

MaxDocs == 4

----------------------------------------------------------------------------
(* Configuration and inputs.                                               *)

base_url == "https://www.bis.org"

NotFound == 404

SeqsUpTo(S, n) == UNION { [1..k -> S] : k \in 0..n }

Titles == {"Speech one", "Speech two"}

RelativeHrefs == {"/review/r230517a.htm"}

AbsoluteHrefs == {"https://other.org/doc.htm"}

Hrefs == RelativeHrefs \cup AbsoluteHrefs

\* article.find("div", class="title"): None, or a node with its text
TitleNodes ==
    {[found |-> FALSE, text |-> ""]} \cup {[found |-> TRUE, text |-> t] : t \in Titles}

\* article.find("a"): None, an anchor without href, or an anchor with href
AnchorNodes ==
    {[found |-> FALSE, hasHref |-> FALSE, href |-> ""],
     [found |-> TRUE,  hasHref |-> FALSE, href |-> ""]}
    \cup {[found |-> TRUE, hasHref |-> TRUE, href |-> h] : h \in Hrefs}

Articles == [title_div : TitleNodes, a : AnchorNodes]

StatusCodes == {200, NotFound, 500}

\* what self.request(page_url, locator) does: raise, or answer a status and a body
RequestRaises ==
    [raises |-> TRUE, status_code |-> 0, hasSection |-> FALSE, articles |-> <<>>]

PageResponses ==
    {RequestRaises}
    \cup [raises : {FALSE}, status_code : StatusCodes, hasSection : {FALSE},
          articles : {<<>>}]
    \cup [raises : {FALSE}, status_code : StatusCodes, hasSection : {TRUE},
          articles : SeqsUpTo(Articles, MaxItems)]

----------------------------------------------------------------------------
(* _parse_page_links                                                       *)

\* for_articles with "break" in place of "continue" at an item without a title
RECURSIVE for_articles_break(_, _)
for_articles_break(articles, links) ==
    IF articles = <<>> THEN [raised |-> FALSE, links |-> links]
    ELSE LET article == Head(articles) IN
         IF ~article.title_div.found
         THEN [raised |-> FALSE, links |-> links]
         ELSE IF ~(article.a.found /\ article.a.hasHref)
         THEN [raised |-> TRUE, links |-> links]
         ELSE for_articles_break(Tail(articles),
                  Append(links, [title |-> article.title_div.text,
                                 url   |-> base_url \o article.a.href]))

\* the for loop over the articles; an exception leaves the loop with the links so far
RECURSIVE for_articles(_, _)
for_articles(articles, links) ==
    IF articles = <<>> THEN [raised |-> FALSE, links |-> links]
    ELSE LET article == Head(articles) IN
         IF ~article.title_div.found
         THEN for_articles(Tail(articles), links)                     \* continue
         ELSE IF ~article.a.found
         THEN [raised |-> TRUE, links |-> links]                      \* None["href"]
         ELSE IF ~article.a.hasHref
         THEN [raised |-> TRUE, links |-> links]                      \* KeyError
         ELSE for_articles(Tail(articles),
                  Append(links, [title |-> article.title_div.text,
                                 url   |-> base_url \o article.a.href]))

\* try_page_links without the status_code == 404 test
try_page_links_no404(response) ==
    IF response.raises \/ ~response.hasSection
    THEN [returnsNone |-> FALSE, raised |-> TRUE, links |-> <<>>]
    ELSE LET loop == for_articles(response.articles, <<>>) IN
         [returnsNone |-> FALSE, raised |-> loop.raised, links |-> loop.links]

\* the body of the try block: it returns None, raises, or falls through to return links
try_page_links(response) ==
    IF response.raises
    THEN [returnsNone |-> FALSE, raised |-> TRUE, links |-> <<>>]
    ELSE IF response.status_code = NotFound
    THEN [returnsNone |-> TRUE, raised |-> FALSE, links |-> <<>>]
    ELSE IF ~response.hasSection
    THEN [returnsNone |-> FALSE, raised |-> TRUE, links |-> <<>>]     \* None.find_all
    ELSE LET loop == for_articles(response.articles, <<>>) IN
         [returnsNone |-> FALSE, raised |-> loop.raised, links |-> loop.links]

\* parse_page_links without the except clause: the exception reaches the caller
parse_page_links_reraise(response) ==
    LET body == try_page_links(response) IN
    IF body.returnsNone
    THEN [raised |-> FALSE, kind |-> "None", links |-> <<>>]
    ELSE IF body.raised
    THEN [raised |-> TRUE, kind |-> "raise", links |-> <<>>]
    ELSE [raised |-> FALSE, kind |-> "list", links |-> body.links]

\* parse_page_links ending with "return links or None"
parse_page_links_empty_none(response) ==
    LET body == try_page_links(response) IN
    IF body.returnsNone \/ body.links = <<>>
    THEN [raised |-> FALSE, kind |-> "None", links |-> <<>>]
    ELSE [raised |-> FALSE, kind |-> "list", links |-> body.links]

\* except Exception: logged, and control reaches "return links"
parse_page_links(response) ==
    LET body == try_page_links(response) IN
    IF body.returnsNone
    THEN [raised |-> FALSE, kind |-> "None", links |-> <<>>]
    ELSE [raised |-> FALSE, kind |-> "list", links |-> body.links]

NoResult == [raised |-> FALSE, kind |-> "pending", links |-> <<>>]

----------------------------------------------------------------------------
(* _parse_article_text and _extract_text                                   *)

ParagraphTexts == {"A", "", "B"}

TagTexts == {"Policy", "Speech"}

DatetimeStrings == {"2023-05-17", "2023-05-17T09:30:00", "17 May 2023", ""}

\* entry_meta_div.find("time", class_="entry-time"): None, or a node with or
\* without a datetime attribute
TimeNodes ==
    {[found |-> FALSE, hasDatetime |-> FALSE, datetime |-> ""],
     [found |-> TRUE,  hasDatetime |-> FALSE, datetime |-> ""]}
    \cup {[found |-> TRUE, hasDatetime |-> TRUE, datetime |-> d] : d \in DatetimeStrings}

NoContent == [found |-> FALSE, p_tags |-> <<>>]

NoMeta ==
    [found |-> FALSE, tags |-> <<>>,
     time |-> [found |-> FALSE, hasDatetime |-> FALSE, datetime |-> ""]]

ContentDivs ==
    {NoContent} \cup [found : {TRUE}, p_tags : SeqsUpTo(ParagraphTexts, MaxParagraphs)]

MetaDivs ==
    {NoMeta} \cup [found : {TRUE}, tags : SeqsUpTo(TagTexts, MaxTags), time : TimeNodes]

DocRequestRaises == [raises |-> TRUE, entry_content_div |-> NoContent, entry_meta_div |-> NoMeta]

DocResponses ==
    {DocRequestRaises}
    \cup [raises : {FALSE}, entry_content_div : ContentDivs, entry_meta_div : MetaDivs]

\* datetime.fromisoformat on the strings of DatetimeStrings: the date and the time
\* of day it parses, or ValueError
fromisoformat(s) ==
    IF s = "2023-05-17"
    THEN [raised |-> FALSE, date |-> "2023-05-17", time |-> "00:00:00"]
    ELSE IF s = "2023-05-17T09:30:00"
    THEN [raised |-> FALSE, date |-> "2023-05-17", time |-> "09:30:00"]
    ELSE [raised |-> TRUE, date |-> "", time |-> ""]

\* datetime.isoformat
isoformat(dt) == dt.date \o "T" \o dt.time

\* str.join that leaves out the empty strings
RECURSIVE join_skip_empty(_, _)
join_skip_empty(sep, texts) ==
    IF texts = <<>> THEN ""
    ELSE IF Head(texts) = "" THEN join_skip_empty(sep, Tail(texts))
    ELSE IF join_skip_empty(sep, Tail(texts)) = "" THEN Head(texts)
    ELSE Head(texts) \o sep \o join_skip_empty(sep, Tail(texts))

\* str.join
RECURSIVE join(_, _)
join(sep, texts) ==
    IF texts = <<>> THEN ""
    ELSE IF Len(texts) = 1 THEN Head(texts)
    ELSE Head(texts) \o sep \o join(sep, Tail(texts))

NoRecord == [categories |-> <<>>, time |-> "", text |-> ""]

\* _extract_text that stores the raw datetime attribute, "" when there is none
extract_text_lenient(entry_content_div, entry_meta_div) ==
    [raised |-> FALSE,
     record |-> [categories |-> entry_meta_div.tags,
                 time       |-> entry_meta_div.time.datetime,
                 text       |-> join("\n", entry_content_div.p_tags)]]

\* _extract_text on two located containers: the record, or an exception
extract_text(entry_content_div, entry_meta_div) ==
    LET article_text     == join("\n", entry_content_div.p_tags)
        entry_categories == entry_meta_div.tags
        time_tag         == entry_meta_div.time
    IN IF ~time_tag.found
       THEN [raised |-> TRUE, record |-> NoRecord]                    \* None["datetime"]
       ELSE IF ~time_tag.hasDatetime
       THEN [raised |-> TRUE, record |-> NoRecord]                    \* KeyError
       ELSE LET entry_time == fromisoformat(time_tag.datetime) IN
            IF entry_time.raised
            THEN [raised |-> TRUE, record |-> NoRecord]               \* ValueError
            ELSE [raised |-> FALSE,
                  record |-> [categories |-> entry_categories,
                              time       |-> isoformat(entry_time),
                              text       |-> article_text]]

\* the body of the try block: it returns a record, raises, or falls through
try_article_text(response) ==
    IF response.raises
    THEN [returned |-> FALSE, raised |-> TRUE, record |-> NoRecord]
    ELSE IF response.entry_content_div.found /\ response.entry_meta_div.found
    THEN LET r == extract_text(response.entry_content_div, response.entry_meta_div) IN
         [returned |-> ~r.raised, raised |-> r.raised, record |-> r.record]
    ELSE [returned |-> FALSE, raised |-> FALSE, record |-> NoRecord]

\* parse_article_text without the except clause: the exception reaches the caller
parse_article_text_reraise(response) ==
    LET body == try_article_text(response) IN
    IF body.returned
    THEN [raised |-> FALSE, kind |-> "record", record |-> body.record]
    ELSE IF body.raised
    THEN [raised |-> TRUE, kind |-> "raise", record |-> NoRecord]
    ELSE [raised |-> FALSE, kind |-> "None", record |-> NoRecord]

\* except Exception: logged, and control reaches "return None"
parse_article_text(response) ==
    LET body == try_article_text(response) IN
    IF body.returned
    THEN [raised |-> FALSE, kind |-> "record", record |-> body.record]
    ELSE [raised |-> FALSE, kind |-> "None", record |-> NoRecord]

NoDocResult == [raised |-> FALSE, kind |-> "pending", record |-> NoRecord]

----------------------------------------------------------------------------
(* One call of _parse_page_links on any response.                          *)

IdleDoc ==
    /\ docPc = "idle" /\ docResp = DocRequestRaises /\ docResult = NoDocResult

IdleWalk ==
    /\ lastPage = 0 /\ page_index = 0 /\ all_links = <<>>
    /\ walkPc = "idle" /\ walkHistory = <<>>

IdleBatch ==
    /\ batchSize = 0 /\ batchPc = "idle" /\ batchHistory = <<>> /\ batchResults = <<>>

IdlePage ==
    /\ pagePc = "idle" /\ pageResp = RequestRaises /\ pageResult = NoResult

PageInit ==
    /\ pagePc = "ready"
    /\ pageResp \in PageResponses
    /\ pageResult = NoResult
    /\ IdleDoc /\ IdleWalk /\ IdleBatch

FetchPage ==
    /\ pagePc = "ready"
    /\ pageResult' = parse_page_links(pageResp)
    /\ pagePc' = "returned"
    /\ UNCHANGED << pageResp, docVars, walkVars, batchVars >>

PageNext == FetchPage

----------------------------------------------------------------------------
(* Properties of one call of _parse_page_links.                            *)

Titled(article) == article.title_div.found

Linked(article) == article.a.found /\ article.a.hasHref

\* a titled item whose anchor or href is missing
Malformed(article) == Titled(article) /\ ~Linked(article)

\* the items of the page up to, and without, the first malformed one
BeforeFailure(articles) ==
    LET bad == {i \in 1..Len(articles) : Malformed(articles[i])}
        n   == IF bad = {} THEN Len(articles)
               ELSE (CHOOSE i \in bad : \A j \in bad : i <= j) - 1
    IN SubSeq(articles, 1, n)

\* link number i was made from item number i of items
MadeFrom(links, items) ==
    /\ Len(links) = Len(items)
    /\ \A i \in 1..Len(items) :
          /\ links[i].title = items[i].title_div.text
          /\ links[i].url \in {items[i].a.href, base_url \o items[i].a.href}

PageReturned == pagePc = "returned"

\* the request answered (did not raise) with a status other than 404
Answered == ~pageResp.raises /\ pageResp.status_code # NotFound

\* C1: a 404 answer gives None and never a list; anything else, an absorbed
\* exception included, gives a list (possibly empty) and never None.
C1_EndOfPagination ==
    PageReturned =>
        /\ ~pageResult.raised
        /\ (~pageResp.raises /\ pageResp.status_code = NotFound)
               => pageResult.kind = "None"
        /\ (pageResp.raises \/ pageResp.status_code # NotFound)
               => pageResult.kind = "list"

C1_Witness ==
    /\ PageReturned
    /\ ~pageResp.raises /\ pageResp.status_code = NotFound
    /\ pageResp.articles # <<>>
    /\ pageResult.kind = "None"

\* the url the claim C2 expects for an href
ResolvedUrl(href) == IF href \in AbsoluteHrefs THEN href ELSE base_url \o href

\* C2: every emitted url is base_url + href for a relative href and the href
\* itself for an absolute one.
C2_AbsoluteUrl ==
    (PageReturned /\ pageResult.kind = "list") =>
        LET items == SelectSeq(BeforeFailure(pageResp.articles), Titled) IN
        \A i \in 1..Len(pageResult.links) :
            i <= Len(items) => pageResult.links[i].url = ResolvedUrl(items[i].a.href)

\* C3: a page fetched with success whose titled items all carry an anchor with
\* an href gives one record per titled item (N - K records), in page order.
C3_TitledItems ==
    (/\ PageReturned /\ ~pageResp.raises /\ pageResp.status_code = 200
     /\ pageResp.hasSection
     /\ \A i \in 1..Len(pageResp.articles) : ~Malformed(pageResp.articles[i]))
    => LET N == Len(pageResp.articles)
           K == Cardinality({i \in 1..N : ~Titled(pageResp.articles[i])})
       IN /\ pageResult.kind = "list"
          /\ Len(pageResult.links) = N - K
          /\ MadeFrom(pageResult.links, SelectSeq(pageResp.articles, Titled))

C3_Witness ==
    /\ PageReturned /\ ~pageResp.raises /\ pageResp.status_code = 200
    /\ Len(pageResp.articles) = 3
    /\ Titled(pageResp.articles[1]) /\ Linked(pageResp.articles[1])
    /\ ~Titled(pageResp.articles[2])
    /\ Titled(pageResp.articles[3]) /\ Linked(pageResp.articles[3])
    /\ pageResp.articles[1].title_div.text # pageResp.articles[3].title_div.text
    /\ Len(pageResult.links) = 2
    /\ pageResult.links[2].title = pageResp.articles[3].title_div.text

\* an exception is raised inside the try block of the call
PageFails ==
    \/ pageResp.raises
    \/ Answered /\ ~pageResp.hasSection
    \/ Answered /\ \E i \in 1..Len(pageResp.articles) : Malformed(pageResp.articles[i])

\* the request raised, or an item of the answered page is malformed
Fails(response) ==
    \/ response.raises
    \/ \E i \in 1..Len(response.articles) : Malformed(response.articles[i])

\* C6: an exception inside the call never reaches the caller; the call returns
\* the records made before the failure, as a list and not as None, and a walk
\* that met the failure at one page index has gone on to the next one.
C6_ExceptionAbsorbed ==
    /\ (PageReturned /\ PageFails) =>
          /\ ~pageResult.raised
          /\ pageResult.kind = "list"
          /\ MadeFrom(pageResult.links,
                      SelectSeq(BeforeFailure(pageResp.articles), Titled))
    /\ walkPc # "aborted"
    /\ \A i \in 1..Len(walkHistory) : Fails(walkHistory[i]) => page_index >= i

C6_Witness ==
    /\ PageReturned /\ Answered
    /\ Len(pageResp.articles) = 3
    /\ Titled(pageResp.articles[1]) /\ Linked(pageResp.articles[1])
    /\ Malformed(pageResp.articles[2])
    /\ Titled(pageResp.articles[3]) /\ Linked(pageResp.articles[3])
    /\ pageResult.kind = "list"
    /\ Len(pageResult.links) = 1

\* C7: a status that is neither success nor 404 gives an empty list, whatever
\* the body holds.
C7_ErrorStatusNoRecords ==
    (PageReturned /\ ~pageResp.raises /\ pageResp.status_code \notin {200, NotFound})
    => /\ ~pageResult.raised
       /\ pageResult.kind = "list"
       /\ pageResult.links = <<>>

\* C10: a titled item without anchor or href is skipped alone: every titled item
\* with an anchor and an href on the page is emitted, also after a malformed one.
C10_MalformedItemSkipped ==
    (PageReturned /\ Answered /\ pageResp.hasSection)
    => /\ pageResult.kind = "list"
       /\ MadeFrom(pageResult.links,
                   SelectSeq(SelectSeq(pageResp.articles, Titled), Linked))

----------------------------------------------------------------------------
(* One call of _parse_article_text on any response.                        *)

DocInit ==
    /\ docPc = "ready"
    /\ docResp \in DocResponses
    /\ docResult = NoDocResult
    /\ IdlePage /\ IdleWalk /\ IdleBatch

FetchDocument ==
    /\ docPc = "ready"
    /\ docResult' = parse_article_text(docResp)
    /\ docPc' = "returned"
    /\ UNCHANGED << docResp, pageVars, walkVars, batchVars >>

DocNext == FetchDocument

----------------------------------------------------------------------------
(* Properties of one call of _parse_article_text.                          *)

DocReturned == docPc = "returned"

\* the ISO-8601 strings a stored time can be
CanonicalTimes == {"2023-05-17T00:00:00", "2023-05-17T09:30:00"}

\* the datetime attribute is there and parses
TimeReadable(meta) ==
    /\ meta.time.found /\ meta.time.hasDatetime
    /\ meta.time.datetime \in {"2023-05-17", "2023-05-17T09:30:00"}

\* the paragraphs 1..k, each after the first one preceded by one newline
RECURSIVE Lines(_, _)
Lines(texts, k) ==
    IF k = 0 THEN ""
    ELSE IF k = 1 THEN texts[1]
    ELSE Lines(texts, k - 1) \o "\n" \o texts[k]

\* C4: no content container, no metadata container, or a missing or unparsable
\* datetime gives None; a returned record has both containers behind it and its
\* three fields filled.
C4_NoPartialRecord ==
    DocReturned =>
        /\ ~docResult.raised
        /\ docResult.kind \in {"None", "record"}
        /\ (\/ docResp.raises
            \/ ~docResp.entry_content_div.found
            \/ ~docResp.entry_meta_div.found
            \/ ~TimeReadable(docResp.entry_meta_div))
               => (docResult.kind = "None" /\ docResult.record = NoRecord)
        /\ docResult.kind = "record" =>
               /\ docResp.entry_content_div.found /\ docResp.entry_meta_div.found
               /\ docResult.record.time \in CanonicalTimes
               /\ docResult.record.categories = docResp.entry_meta_div.tags
               /\ docResult.record.text
                     = Lines(docResp.entry_content_div.p_tags,
                             Len(docResp.entry_content_div.p_tags))

C4_Witness ==
    /\ DocReturned
    /\ docResp.entry_content_div.found /\ docResp.entry_meta_div.found
    /\ docResp.entry_meta_div.time.found
    /\ docResp.entry_meta_div.time.hasDatetime
    /\ docResp.entry_meta_div.time.datetime = "17 May 2023"
    /\ docResp.entry_content_div.p_tags # <<>>
    /\ docResult.kind = "None"

RECURSIVE TotalLen(_)
TotalLen(texts) == IF texts = <<>> THEN 0 ELSE Len(Head(texts)) + TotalLen(Tail(texts))

\* C9: the text is the paragraphs in document order with one newline between
\* neighbours, the empty ones kept: k paragraphs give k-1 newlines, and "A", "", "B"
\* give "A\n\nB".
C9_TextJoin ==
    (DocReturned /\ docResult.kind = "record") =>
        LET texts == docResp.entry_content_div.p_tags
            k     == Len(texts)
            text  == docResult.record.text
        IN /\ text = Lines(texts, k)
           /\ k >= 1 => Len(text) = TotalLen(texts) + (k - 1)
           /\ k = 0 => text = ""
           /\ texts = <<"A", "", "B">> => text = "A\n\nB"

C9_Witness ==
    /\ DocReturned /\ docResult.kind = "record"
    /\ docResp.entry_content_div.p_tags = <<"A", "", "B">>
    /\ docResult.record.text = "A\n\nB"

----------------------------------------------------------------------------
(* The page walk: _parse_page_links is called with page_index 0, 1, 2, ...  *)
(* until it returns None; the lists it returns are concatenated.  The site  *)
(* has lastPage listing pages: the request for a page index from lastPage   *)
(* on answers 404.                                                          *)

WalkArticles ==
    {a \in Articles :
        \/ ~a.title_div.found /\ ~a.a.found
        \/ a.title_div.text = "Speech one" /\ ~a.a.found
        \/ a.title_div.found /\ a.a.hasHref /\ a.a.href \in RelativeHrefs}

WalkResponses ==
    {RequestRaises}
    \cup [raises : {FALSE}, status_code : {200}, hasSection : {TRUE},
          articles : SeqsUpTo(WalkArticles, MaxWalkItems)]

NotFoundResponse ==
    [raises |-> FALSE, status_code |-> NotFound, hasSection |-> FALSE, articles |-> <<>>]

\* what the request for the listing page number i can do
Transport(i) == IF i >= lastPage THEN {NotFoundResponse} ELSE WalkResponses

WalkInit ==
    /\ lastPage \in 0..MaxPages
    /\ page_index = 0
    /\ all_links = <<>>
    /\ walkPc = "walking"
    /\ walkHistory = <<>>
    /\ IdlePage /\ IdleDoc /\ IdleBatch

\* one round of the walk: fetch the page, stop on None, else extend and go on
WalkStep ==
    /\ walkPc = "walking"
    /\ \E response \in Transport(page_index) :
         LET result == parse_page_links(response) IN
         /\ walkHistory' = Append(walkHistory, response)
         /\ IF result.raised
            THEN /\ walkPc' = "aborted"
                 /\ UNCHANGED << all_links, page_index >>
            ELSE IF result.kind = "None"
            THEN /\ walkPc' = "done"
                 /\ UNCHANGED << all_links, page_index >>
            ELSE /\ all_links' = all_links \o result.links
                 /\ page_index' = page_index + 1
                 /\ walkPc' = "walking"
    /\ UNCHANGED << lastPage, pageVars, docVars, batchVars >>

WalkNext == WalkStep

----------------------------------------------------------------------------
(* Properties of the page walk.                                            *)

\* the records of the titled items of one answered page, in page order
RECURSIVE RecordsOf(_)
RecordsOf(items) ==
    IF items = <<>> THEN <<>>
    ELSE <<[title |-> Head(items).title_div.text,
            url   |-> base_url \o Head(items).a.href]>> \o RecordsOf(Tail(items))

PageYield(response) ==
    IF response.raises \/ ~response.hasSection THEN <<>>
    ELSE RecordsOf(SelectSeq(BeforeFailure(response.articles), Titled))

\* the yields of the first n answers, page after page
RECURSIVE YieldsUpTo(_, _)
YieldsUpTo(history, n) ==
    IF n = 0 THEN <<>> ELSE YieldsUpTo(history, n - 1) \o PageYield(history[n])

WalkOrdered ==
    /\ walkPc \in {"idle", "walking", "done"}
    /\ page_index <= lastPage
    /\ walkPc = "walking" =>
          /\ Len(walkHistory) = page_index
          /\ all_links = YieldsUpTo(walkHistory, page_index)
    /\ walkPc = "done" =>
          /\ page_index = lastPage
          /\ Len(walkHistory) = lastPage + 1
          /\ walkHistory[lastPage + 1].status_code = NotFound
          /\ \A i \in 1..lastPage :
                walkHistory[i].raises \/ walkHistory[i].status_code # NotFound
          /\ all_links = YieldsUpTo(walkHistory, lastPage)

\* C5: the walk ends once a page index answers 404, with no call after that one,
\* and what it gathered is the yield of page 0, then of page 1, ..., each in item
\* order.
C5_WalkConcatenates == (walkPc = "walking" ~> walkPc = "done") /\ []WalkOrdered

C5_Witness ==
    /\ walkPc = "done" /\ lastPage = 2
    /\ Len(PageYield(walkHistory[1])) = 2
    /\ Len(PageYield(walkHistory[2])) = 2
    /\ PageYield(walkHistory[1]) # PageYield(walkHistory[2])
    /\ Len(all_links) = 4
    /\ SubSeq(all_links, 3, 4) = PageYield(walkHistory[2])

----------------------------------------------------------------------------
(* A batch of extractions: _parse_article_text is called once per URL and   *)
(* its result is kept, in the order of the URLs.                            *)

BatchTime(d) == [found |-> TRUE, hasDatetime |-> TRUE, datetime |-> d]

BatchResponses ==
    {DocRequestRaises,
     [raises |-> FALSE,
      entry_content_div |-> [found |-> TRUE, p_tags |-> <<"A">>],
      entry_meta_div |-> [found |-> TRUE, tags |-> <<"Policy">>,
                          time |-> BatchTime("2023-05-17")]],
     [raises |-> FALSE,
      entry_content_div |-> [found |-> TRUE, p_tags |-> <<"A", "B">>],
      entry_meta_div |-> [found |-> TRUE, tags |-> <<"Speech">>,
                          time |-> BatchTime("2023-05-17T09:30:00")]],
     [raises |-> FALSE,
      entry_content_div |-> [found |-> TRUE, p_tags |-> <<"B">>],
      entry_meta_div |-> NoMeta],
     [raises |-> FALSE,
      entry_content_div |-> [found |-> TRUE, p_tags |-> <<"B">>],
      entry_meta_div |-> [found |-> TRUE, tags |-> <<>>,
                          time |-> BatchTime("17 May 2023")]]}

BatchInit ==
    /\ batchSize \in 0..MaxDocs
    /\ batchPc = "running"
    /\ batchHistory = <<>>
    /\ batchResults = <<>>
    /\ IdlePage /\ IdleDoc /\ IdleWalk

\* the extraction of the next URL of the batch
BatchStep ==
    /\ batchPc = "running"
    /\ Len(batchResults) < batchSize
    /\ \E response \in BatchResponses :
         LET result == parse_article_text(response) IN
         /\ batchHistory' = Append(batchHistory, response)
         /\ IF result.raised
            THEN /\ batchPc' = "aborted"
                 /\ UNCHANGED batchResults
            ELSE /\ batchResults' = Append(batchResults, result)
                 /\ batchPc' = IF Len(batchResults) + 1 = batchSize
                               THEN "done" ELSE "running"
    /\ UNCHANGED << batchSize, pageVars, docVars, walkVars >>

BatchNext == BatchStep

----------------------------------------------------------------------------
(* The four uses of the fetcher; each behaviour is one of them.            *)

Init == PageInit \/ DocInit \/ WalkInit \/ BatchInit

Next == PageNext \/ DocNext \/ WalkNext \/ BatchNext

Spec == Init /\ [][Next]_vars

\* the walk is a loop of blocking calls: it goes on while it can
FairSpec == Spec /\ WF_vars(WalkNext)

----------------------------------------------------------------------------
(* Properties of the batch.                                                *)

\* the document cannot give a record
DocFails(response) ==
    \/ response.raises
    \/ ~response.entry_content_div.found
    \/ ~response.entry_meta_div.found
    \/ ~TimeReadable(response.entry_meta_div)

\* C8: no extraction of a batch raises; there is one result per URL so far, and
\* result number i is None exactly when document number i fails and is the
\* record of document number i otherwise, whatever the other documents do.
C8_BatchIsolated ==
    /\ batchPc # "aborted"
    /\ Len(batchResults) = Len(batchHistory)
    /\ Len(batchResults) <= batchSize
    /\ batchPc = "done" => Len(batchResults) = batchSize
    /\ \A i \in 1..Len(batchResults) :
         /\ ~batchResults[i].raised
         /\ batchResults[i].kind = (IF DocFails(batchHistory[i]) THEN "None" ELSE "record")
         /\ batchResults[i].kind = "record" =>
               /\ batchResults[i].record.categories = batchHistory[i].entry_meta_div.tags
               /\ batchResults[i].record.text
                     = Lines(batchHistory[i].entry_content_div.p_tags,
                             Len(batchHistory[i].entry_content_div.p_tags))

C8_Witness ==
    /\ batchPc = "done" /\ batchSize = 4
    /\ Len(batchResults) = 4
    /\ batchHistory[3].entry_content_div.found
    /\ ~batchHistory[3].entry_meta_div.found
    /\ batchResults[3].kind = "None"
    /\ \A i \in {1, 2, 4} : batchResults[i].kind = "record"

====
